---- MODULE Spec2Model ----
(***************************************************************************)
(* Model of package semver (maloquacious/semver): the Version value type,  *)
(* its precedence comparator Compare, the content predicate Equal and the   *)
(* three renderers String, Short and Core.                                 *)
(*                                                                         *)
(* A Go string is modelled as a sequence of one-character strings; Byte    *)
(* gives the byte value that Go's string ordering compares.                *)
(***************************************************************************)
EXTENDS Integers, Sequences, FiniteSets, TLC

VARIABLES a, b, c, op, ret, iters, data, input, args, info

vars == <<a, b, c, op, ret, iters, data, input, args, info>>

(***************************************************************************)
(* Bounds of the model.                                                    *)
(***************************************************************************)
\* A generated slice of versions has at most MaxLen elements.
MaxLen == 3
\* The build information has at most MaxSettings settings.
MaxSettings == 3
\* Major, Minor and Patch range over -MaxCore..MaxCore.
MaxCore == 1
\* A generated PreRelease has at most MaxIdents dot-separated identifiers.
MaxIdents == 2

(***************************************************************************)
(* Strings.                                                                *)
(***************************************************************************)
Digits == {"0", "1", "2", "3", "4", "5", "6", "7", "8", "9"}

DigitVal == [d \in Digits |->
    CASE d = "0" -> 0 [] d = "1" -> 1 [] d = "2" -> 2 [] d = "3" -> 3
      [] d = "4" -> 4 [] d = "5" -> 5 [] d = "6" -> 6 [] d = "7" -> 7
      [] d = "8" -> 8 [] d = "9" -> 9]

Letters == {"a", "b", "c", "d", "e", "h", "i", "l", "p", "r", "t", "u"}

\* ASCII value of the characters the model uses.
Byte == [ch \in Digits \cup Letters \cup {"+", "-", "."} |->
    IF ch \in Digits THEN 48 + DigitVal[ch]
    ELSE CASE ch = "+" -> 43 [] ch = "-" -> 45 [] ch = "." -> 46
           [] ch = "a" -> 97 [] ch = "b" -> 98 [] ch = "c" -> 99
           [] ch = "d" -> 100 [] ch = "e" -> 101 [] ch = "h" -> 104
           [] ch = "i" -> 105 [] ch = "l" -> 108 [] ch = "p" -> 112
           [] ch = "r" -> 114 [] ch = "t" -> 116 [] ch = "u" -> 117]

\* Go's s < t on strings: bytewise lexicographic, a proper prefix is smaller.
StrLess(s, t) ==
    \E i \in 1..Len(t) :
        /\ i <= Len(s) + 1
        /\ \A j \in 1..(i - 1) : s[j] = t[j]
        /\ \/ i = Len(s) + 1
           \/ Byte[s[i]] < Byte[t[i]]

\* strings.Split(s, "."): the fields between the dots; always at least one.
RECURSIVE Split(_)
Split(s) ==
    IF \A i \in 1..Len(s) : s[i] # "."
    THEN <<s>>
    ELSE LET k == CHOOSE i \in 1..Len(s) :
                      s[i] = "." /\ \A j \in 1..(i - 1) : s[j] # "."
         IN  <<SubSeq(s, 1, k - 1)>> \o Split(SubSeq(s, k + 1, Len(s)))

(***************************************************************************)
(* strconv.Atoi on a 64-bit int.  The parsed value is kept as a sign and   *)
(* the digits of its magnitude without leading zeros, so that identifiers  *)
(* at the edge of the int64 range are represented exactly.                 *)
(***************************************************************************)
RECURSIVE StripZeros(_)
StripZeros(ds) ==
    IF ds # <<>> /\ Head(ds) = "0" THEN StripZeros(Tail(ds)) ELSE ds

\* m < n for magnitudes without leading zeros.
MagLess(m, n) ==
    \/ Len(m) < Len(n)
    \/ Len(m) = Len(n) /\ StrLess(m, n)

\* 2^63 - 1 and 2^63, the largest magnitudes of a positive and a negative int.
MaxInt64 == <<"9","2","2","3","3","7","2","0","3","6","8","5","4","7","7","5","8","0","7">>
MinInt64Mag == <<"9","2","2","3","3","7","2","0","3","6","8","5","4","7","7","5","8","0","8">>

NotAnInt == [ok |-> FALSE, neg |-> FALSE, mag |-> <<>>]

Atoi(s) ==
    IF s = <<>> THEN NotAnInt
    ELSE LET signed == s[1] \in {"+", "-"}
             body   == IF signed THEN Tail(s) ELSE s
             mag    == StripZeros(body)
             neg    == s[1] = "-"
         IN  IF body = <<>> \/ \E i \in 1..Len(body) : body[i] \notin Digits
             THEN NotAnInt                      \* syntax error
             ELSE IF MagLess(IF neg THEN MinInt64Mag ELSE MaxInt64, mag)
             THEN NotAnInt                      \* range error
             ELSE [ok |-> TRUE, neg |-> neg /\ mag # <<>>, mag |-> mag]

\* A mistaken n1 < n2 that orders the digits as text.
IntLessText(n1, n2) ==
    IF n1.neg # n2.neg THEN n1.neg
    ELSE IF n1.neg THEN StrLess(n2.mag, n1.mag)
    ELSE StrLess(n1.mag, n2.mag)

\* n1 < n2 on parsed values.
IntLess(n1, n2) ==
    IF n1.neg # n2.neg THEN n1.neg
    ELSE IF n1.neg THEN MagLess(n2.mag, n1.mag)
    ELSE MagLess(n1.mag, n2.mag)

(***************************************************************************)
(* Version.Compare                                                         *)
(***************************************************************************)
\* A mistaken iteration whose second one-sided branch repeats the first.
CompareIdentOneSided(f1, f2) ==
    LET n1 == Atoi(f1)
        n2 == Atoi(f2)
    IN  IF n1.ok /\ n2.ok
        THEN IF IntLess(n1, n2) THEN -1
             ELSE IF IntLess(n2, n1) THEN 1
             ELSE 0
        ELSE IF n1.ok THEN -1
        ELSE IF n2.ok THEN -1
        ELSE IF StrLess(f1, f2) THEN -1
        ELSE IF StrLess(f2, f1) THEN 1
        ELSE 0

\* A mistaken iteration that compares as text unless both fields are ints.
CompareIdentText(f1, f2) ==
    LET n1 == Atoi(f1)
        n2 == Atoi(f2)
    IN  IF n1.ok /\ n2.ok
        THEN IF IntLess(n1, n2) THEN -1
             ELSE IF IntLess(n2, n1) THEN 1
             ELSE 0
        ELSE IF StrLess(f1, f2) THEN -1
        ELSE IF StrLess(f2, f1) THEN 1
        ELSE 0

\* A mistaken iteration that ranks a numeric identifier above a non-numeric.
CompareIdentSwapped(f1, f2) ==
    LET n1 == Atoi(f1)
        n2 == Atoi(f2)
    IN  IF n1.ok /\ n2.ok
        THEN IF IntLess(n1, n2) THEN -1
             ELSE IF IntLess(n2, n1) THEN 1
             ELSE 0
        ELSE IF n1.ok THEN 1
        ELSE IF n2.ok THEN -1
        ELSE IF StrLess(f1, f2) THEN -1
        ELSE IF StrLess(f2, f1) THEN 1
        ELSE 0

\* One iteration of the loop over the common fields: -1 or 1 when the pair of
\* identifiers decides, 0 when the loop goes on to the next field.
CompareIdent(f1, f2) ==
    LET n1 == Atoi(f1)
        n2 == Atoi(f2)
    IN  IF n1.ok /\ n2.ok
        THEN IF IntLess(n1, n2) THEN -1
             ELSE IF IntLess(n2, n1) THEN 1
             ELSE 0
        ELSE IF n1.ok THEN -1
        ELSE IF n2.ok THEN 1
        ELSE IF StrLess(f1, f2) THEN -1
        ELSE IF StrLess(f2, f1) THEN 1
        ELSE 0

\* A mistaken tie-break that ranks the longer sequence lower.
CompareLenReversed(fields1, fields2) ==
    IF Len(fields1) < Len(fields2) THEN 1
    ELSE IF Len(fields1) > Len(fields2) THEN -1
    ELSE 0

\* A mistaken tie-break that takes sequences of any lengths for equal.
CompareLenIgnored(fields1, fields2) == 0

\* After the loop: all common fields are equal, compare field lengths.
CompareLen(fields1, fields2) ==
    IF Len(fields1) < Len(fields2) THEN -1
    ELSE IF Len(fields1) > Len(fields2) THEN 1
    ELSE 0

\* The loop from field i on (1-based); iters counts the loop bodies executed.
RECURSIVE CompareFields(_, _, _)
CompareFields(fields1, fields2, i) ==
    IF i <= Len(fields1) /\ i <= Len(fields2)
    THEN LET r == CompareIdent(fields1[i], fields2[i])
         IN  IF r # 0 THEN [ret |-> r, iters |-> i]
             ELSE CompareFields(fields1, fields2, i + 1)
    ELSE [ret |-> CompareLen(fields1, fields2), iters |-> i - 1]

\* A mistaken pre-release step that breaks a tie on the Build strings.
ComparePreReleaseBuild(v, v2) ==
    IF v.PreRelease = <<>> /\ v2.PreRelease # <<>> THEN [ret |-> 1, iters |-> 0]
    ELSE IF v.PreRelease # <<>> /\ v2.PreRelease = <<>> THEN [ret |-> -1, iters |-> 0]
    ELSE LET t == CompareFields(Split(v.PreRelease), Split(v2.PreRelease), 1)
         IN  IF t.ret # 0 THEN t
             ELSE IF StrLess(v.Build, v2.Build) THEN [ret |-> -1, iters |-> t.iters]
             ELSE IF StrLess(v2.Build, v.Build) THEN [ret |-> 1, iters |-> t.iters]
             ELSE t

\* A mistaken pre-release step without the normal-release rule.
ComparePreReleaseNoRule(v, v2) ==
    CompareFields(Split(v.PreRelease), Split(v2.PreRelease), 1)

\* Major, minor, patch are equal, compare pre-release.
ComparePreRelease(v, v2) ==
    IF v.PreRelease = <<>> /\ v2.PreRelease # <<>> THEN [ret |-> 1, iters |-> 0]
    ELSE IF v.PreRelease # <<>> /\ v2.PreRelease = <<>> THEN [ret |-> -1, iters |-> 0]
    ELSE CompareFields(Split(v.PreRelease), Split(v2.PreRelease), 1)

\* A mistaken Compare that returns the difference of the first unequal integer.
CompareTraceDiff(v, v2) ==
    IF v.Major # v2.Major THEN [ret |-> v.Major - v2.Major, iters |-> 0]
    ELSE IF v.Minor # v2.Minor THEN [ret |-> v.Minor - v2.Minor, iters |-> 0]
    ELSE IF v.Patch # v2.Patch THEN [ret |-> v.Patch - v2.Patch, iters |-> 0]
    ELSE ComparePreRelease(v, v2)

\* A mistaken Compare that looks at Minor before Major.
CompareTraceMinorFirst(v, v2) ==
    IF v.Minor < v2.Minor THEN [ret |-> -1, iters |-> 0]
    ELSE IF v.Minor > v2.Minor THEN [ret |-> 1, iters |-> 0]
    ELSE IF v.Major < v2.Major THEN [ret |-> -1, iters |-> 0]
    ELSE IF v.Major > v2.Major THEN [ret |-> 1, iters |-> 0]
    ELSE IF v.Patch < v2.Patch THEN [ret |-> -1, iters |-> 0]
    ELSE IF v.Patch > v2.Patch THEN [ret |-> 1, iters |-> 0]
    ELSE ComparePreRelease(v, v2)

\* Compare with the number of loop iterations it took.
CompareTrace(v, v2) ==
    IF v.Major < v2.Major THEN [ret |-> -1, iters |-> 0]
    ELSE IF v.Major > v2.Major THEN [ret |-> 1, iters |-> 0]
    ELSE IF v.Minor < v2.Minor THEN [ret |-> -1, iters |-> 0]
    ELSE IF v.Minor > v2.Minor THEN [ret |-> 1, iters |-> 0]
    ELSE IF v.Patch < v2.Patch THEN [ret |-> -1, iters |-> 0]
    ELSE IF v.Patch > v2.Patch THEN [ret |-> 1, iters |-> 0]
    ELSE ComparePreRelease(v, v2)

Compare(v, v2) == CompareTrace(v, v2).ret

(***************************************************************************)
(* Version.Equal                                                           *)
(***************************************************************************)
\* A mistaken Equal implemented in terms of the comparator.
EqualByCompare(v, v2) == Compare(v, v2) = 0

Equal(v, v2) ==
    /\ v.Major = v2.Major
    /\ v.Minor = v2.Minor
    /\ v.Patch = v2.Patch
    /\ v.PreRelease = v2.PreRelease
    /\ v.Build = v2.Build

(***************************************************************************)
(* Version.Less, Version.IsZero, ByVersion                                 *)
(***************************************************************************)
\* A mistaken Less that also holds for versions of the same precedence.
LessOrSame(v, v2) == Compare(v, v2) <= 0

Less(v, v2) == Compare(v, v2) < 0

\* A mistaken IsZero that looks at the core triple only.
IsZeroCore(v) == v.Major = 0 /\ v.Minor = 0 /\ v.Patch = 0

\* v == Version{}: the struct equals the zero value of its type.
IsZero(v) ==
    v = [Major |-> 0, Minor |-> 0, Patch |-> 0, PreRelease |-> <<>>, Build |-> <<>>]

\* ByVersion.Len; vs is the slice, indexed from 1 here and from 0 in Go.
ByVersionLen(vs) == Len(vs)

\* A mistaken ByVersion.Less that orders the other way.
ByVersionLessReversed(vs, i, j) == Compare(vs[i], vs[j]) > 0

\* A mistaken ByVersion.Less that also holds for ties.
ByVersionLessOrSame(vs, i, j) == Compare(vs[i], vs[j]) <= 0

\* ByVersion.Less
ByVersionLess(vs, i, j) == Compare(vs[i], vs[j]) < 0

\* A mistaken ByVersion.Swap that copies one element over the other.
ByVersionSwapCopy(vs, i, j) == [vs EXCEPT ![i] = vs[j]]

\* ByVersion.Swap
ByVersionSwap(vs, i, j) == [vs EXCEPT ![i] = vs[j], ![j] = vs[i]]

(***************************************************************************)
(* sort.Sort(ByVersion(versions)), as the tests call it: the pattern-       *)
(* defeating quicksort of package sort (Go 1.19 and later), which reaches   *)
(* the slice only through ByVersion's Len, Less and Swap.  Positions are    *)
(* 1-based and ranges half-open, [lo, hi).  The model covers slices of at   *)
(* most 13 elements: up to 12 are sorted by insertion, 13 are partitioned   *)
(* once around a median of three and each side is sorted by insertion.      *)
(***************************************************************************)
\* Slices of at most maxInsertion elements are sorted by insertion.
maxInsertion == 12

\* F of the value of x, with x evaluated once: a call of the source receives
\* the slice as it is after the steps before it.
Then(x, F(_)) == CHOOSE r \in { F(w) : w \in {x} } : TRUE

\* The inner loop of insertionSort: element j sinks while it is Less than
\* the one before it.
RECURSIVE InsertionInner(_, _, _)
InsertionInner(vs, lo, j) ==
    IF j > lo /\ ByVersionLess(vs, j, j - 1)
    THEN Then(ByVersionSwap(vs, j, j - 1), LAMBDA w : InsertionInner(w, lo, j - 1))
    ELSE vs

RECURSIVE InsertionFrom(_, _, _, _)
InsertionFrom(vs, lo, hi, i) ==
    IF i < hi
    THEN Then(InsertionInner(vs, lo, i), LAMBDA w : InsertionFrom(w, lo, hi, i + 1))
    ELSE vs

InsertionSort(vs, lo, hi) == InsertionFrom(vs, lo, hi, lo + 1)

\* order2: the two positions with the smaller element first, and whether
\* they were exchanged.
Order2(vs, x, y) ==
    IF ByVersionLess(vs, y, x) THEN [lo |-> y, hi |-> x, swaps |-> 1]
    ELSE [lo |-> x, hi |-> y, swaps |-> 0]

\* median: the position of the median of three and the exchanges counted.
Median(vs, x, y, z) ==
    LET s1 == Order2(vs, x, y)
        s2 == Order2(vs, s1.hi, z)
        s3 == Order2(vs, s1.lo, s2.lo)
    IN  [pivot |-> s3.hi, swaps |-> s1.swaps + s2.swaps + s3.swaps]

\* choosePivot for 8 to 49 elements: the median of the three quartile
\* positions.
ChoosePivot(vs, lo, hi) ==
    LET l == hi - lo
    IN  Median(vs, lo + (l \div 4), lo + (l \div 4) * 2, lo + (l \div 4) * 3)

\* partialInsertionSort for fewer than 50 elements: reports whether the
\* range is already in order and moves nothing.
PartialInsertionSort(vs, lo, hi) ==
    \A i \in (lo + 1)..(hi - 1) : ~ByVersionLess(vs, i, i - 1)

\* partition: the two scans towards each other.
RECURSIVE ScanUp(_, _, _, _)
ScanUp(vs, i, j, lo) ==
    IF i <= j /\ ByVersionLess(vs, i, lo) THEN ScanUp(vs, i + 1, j, lo) ELSE i

RECURSIVE ScanDown(_, _, _, _)
ScanDown(vs, i, j, lo) ==
    IF i <= j /\ ~ByVersionLess(vs, j, lo) THEN ScanDown(vs, i, j - 1, lo) ELSE j

RECURSIVE PartitionLoop(_, _, _, _)
PartitionLoop(vs, i, j, lo) ==
    LET i2 == ScanUp(vs, i, j, lo)
        j2 == ScanDown(vs, i2, j, lo)
    IN  IF i2 > j2 THEN [vs |-> ByVersionSwap(vs, j2, lo), mid |-> j2]
        ELSE Then(ByVersionSwap(vs, i2, j2),
                  LAMBDA w : PartitionLoop(w, i2 + 1, j2 - 1, lo))

\* partition: the pivot goes to the front, elements Less than it are
\* gathered before position mid, the others after it, the pivot at mid.
Partition(vs, lo, hi, pivot) ==
    LET v1 == ByVersionSwap(vs, lo, pivot)
        i1 == ScanUp(v1, lo + 1, hi - 1, lo)
        j1 == ScanDown(v1, i1, hi - 1, lo)
    IN  IF i1 > j1 THEN [vs |-> ByVersionSwap(v1, j1, lo), mid |-> j1]
        ELSE Then(ByVersionSwap(v1, i1, j1),
                  LAMBDA w : PartitionLoop(w, i1 + 1, j1 - 1, lo))

\* pdqsort on [lo, hi) of at most 13 elements.
Pdqsort(vs, lo, hi) ==
    IF hi - lo <= maxInsertion THEN InsertionSort(vs, lo, hi)
    ELSE LET cp == ChoosePivot(vs, lo, hi)
         IN  IF cp.swaps = 0 /\ PartialInsertionSort(vs, lo, hi) THEN vs
             ELSE Then(Partition(vs, lo, hi, cp.pivot), LAMBDA pt :
                      IF pt.mid - lo < hi - pt.mid
                      THEN Then(InsertionSort(pt.vs, lo, pt.mid),
                                LAMBDA w : InsertionSort(w, pt.mid + 1, hi))
                      ELSE Then(InsertionSort(pt.vs, pt.mid + 1, hi),
                                LAMBDA w : InsertionSort(w, lo, pt.mid)))

\* sort.Sort
Sort(vs) ==
    LET n == ByVersionLen(vs)
    IN  IF n <= 1 THEN vs ELSE Pdqsort(vs, 1, n + 1)

\* The gap of the ShellSort pass of the quickSort of Go 1.18 and before.
shellGap == 6

\* That pass: element i goes before element i - 6 when Less than it.
RECURSIVE ShellPass(_, _, _)
ShellPass(vs, i, hi) ==
    IF i < hi
    THEN Then(IF ByVersionLess(vs, i, i - shellGap)
              THEN ByVersionSwap(vs, i, i - shellGap) ELSE vs,
              LAMBDA w : ShellPass(w, i + 1, hi))
    ELSE vs

\* quickSort of Go 1.18 and before on [lo, hi) of at most 12 elements: the
\* ShellSort pass, then insertionSort.
QuickSort(vs, lo, hi) ==
    IF hi - lo > 1
    THEN Then(ShellPass(vs, lo + shellGap, hi), LAMBDA w : InsertionSort(w, lo, hi))
    ELSE vs

\* sort.Sort of Go 1.18 and before
SortLegacy(vs) == QuickSort(vs, 1, ByVersionLen(vs) + 1)

(***************************************************************************)
(* Commit: the build information is a record of ok, as returned by         *)
(* debug.ReadBuildInfo, and Settings, a sequence of Key and Value.         *)
(***************************************************************************)
\* The length of a short revision.
ShortLen == 7

true == <<"t", "r", "u", "e">>

\* The revision of a setting, cut to its first seven characters.
ShortRevision(value) ==
    IF Len(value) > ShortLen THEN SubSeq(value, 1, ShortLen) ELSE value

\* The loop over info.Settings of commit_hash.go: the last vcs.modified and
\* the last vcs.revision decide.
RECURSIVE CommitSettings(_, _)
CommitSettings(settings, st) ==
    IF settings = <<>> THEN st
    ELSE LET setting == Head(settings)
         IN  CommitSettings(Tail(settings),
                 IF setting.Key = "vcs.modified"
                 THEN [st EXCEPT !.dirtyWorkingDirectory = (setting.Value = true)]
                 ELSE IF setting.Key = "vcs.revision"
                 THEN [st EXCEPT !.commitHash = ShortRevision(setting.Value)]
                 ELSE st)

\* Commit of commit_hash.go
Commit(bi) ==
    LET zero == [commitHash |-> <<>>, dirtyWorkingDirectory |-> FALSE]
        st == IF bi.ok THEN CommitSettings(bi.Settings, zero) ELSE zero
    IN  IF st.commitHash # <<>> /\ st.dirtyWorkingDirectory
        THEN IF st.dirtyWorkingDirectory
             THEN st.commitHash \o <<"-", "d", "i", "r", "t", "y">>
             ELSE st.commitHash
        ELSE IF st.dirtyWorkingDirectory THEN <<"d", "i", "r", "t", "y">>
        ELSE <<>>

\* The loop over info.Settings of the other variant: the value of
\* vcs.modified is kept as it is.
RECURSIVE CommitSettingsUnnamed(_, _)
CommitSettingsUnnamed(settings, st) ==
    IF settings = <<>> THEN st
    ELSE LET setting == Head(settings)
         IN  CommitSettingsUnnamed(Tail(settings),
                 IF setting.Key = "vcs.modified"
                 THEN [st EXCEPT !.dirtyWorkingDirectory = setting.Value]
                 ELSE IF setting.Key = "vcs.revision"
                 THEN [st EXCEPT !.commitHash = ShortRevision(setting.Value)]
                 ELSE st)

\* Commit of the other variant (unnamed/part_000)
CommitUnnamed(bi) ==
    LET zero == [commitHash |-> <<>>, dirtyWorkingDirectory |-> <<>>]
        st == IF bi.ok THEN CommitSettingsUnnamed(bi.Settings, zero) ELSE zero
    IN  IF st.commitHash # <<>> /\ st.dirtyWorkingDirectory # <<>>
        THEN st.commitHash \o <<"-", "d", "i", "r", "t", "y">>
        ELSE IF st.commitHash # <<>> THEN st.commitHash
        ELSE IF st.dirtyWorkingDirectory # <<>>
        THEN <<"*", "-", "d", "i", "r", "t", "y">>
        ELSE <<>>

(***************************************************************************)
(* Version.String, Version.Short, Version.Core                             *)
(***************************************************************************)
DigitChar == [n \in 0..9 |-> CHOOSE d \in Digits : DigitVal[d] = n]

\* The %d verb on a non-negative int: decimal digits, no padding.
RECURSIVE FormatNat(_)
FormatNat(n) ==
    IF n < 10 THEN <<DigitChar[n]>>
    ELSE Append(FormatNat(n \div 10), DigitChar[n % 10])

\* The %d verb.
FormatInt(n) == IF n < 0 THEN <<"-">> \o FormatNat(-n) ELSE FormatNat(n)

\* "%d.%d.%d"
FormatCore(v) ==
    FormatInt(v.Major) \o <<".">> \o FormatInt(v.Minor) \o <<".">> \o FormatInt(v.Patch)

\* A mistaken String that writes the build metadata before the pre-release.
StringBuildFirst(v) ==
    LET hasPreRelease == v.PreRelease # <<>>
        hasBuild == v.Build # <<>>
    IN  IF hasPreRelease /\ hasBuild
        THEN FormatCore(v) \o <<"+">> \o v.Build \o <<"-">> \o v.PreRelease
        ELSE IF hasPreRelease /\ ~hasBuild
        THEN FormatCore(v) \o <<"-">> \o v.PreRelease
        ELSE IF ~hasPreRelease /\ hasBuild
        THEN FormatCore(v) \o <<"+">> \o v.Build
        ELSE FormatCore(v)

String(v) ==
    LET hasPreRelease == v.PreRelease # <<>>
        hasBuild == v.Build # <<>>
    IN  IF hasPreRelease /\ hasBuild
        THEN FormatCore(v) \o <<"-">> \o v.PreRelease \o <<"+">> \o v.Build
        ELSE IF hasPreRelease /\ ~hasBuild
        THEN FormatCore(v) \o <<"-">> \o v.PreRelease
        ELSE IF ~hasPreRelease /\ hasBuild
        THEN FormatCore(v) \o <<"+">> \o v.Build
        ELSE FormatCore(v)

\* A mistaken Short that keeps the build metadata of a normal release.
ShortKeepsBuild(v) ==
    IF v.PreRelease # <<>>
    THEN FormatCore(v) \o <<"-">> \o v.PreRelease
    ELSE String(v)

Short(v) ==
    IF v.PreRelease # <<>>
    THEN FormatCore(v) \o <<"-">> \o v.PreRelease
    ELSE FormatCore(v)

Core(v) == FormatCore(v)

(***************************************************************************)
(* Inputs.  Version values are built by direct construction, so every      *)
(* combination of integers and strings is a value the program can be       *)
(* handed, well-formed or not.                                             *)
(***************************************************************************)
Version(major, minor, patch, pre, build) ==
    [Major |-> major, Minor |-> minor, Patch |-> patch,
     PreRelease |-> pre, Build |-> build]

Empty == <<>>
alpha == <<"a", "l", "p", "h", "a">>
beta  == <<"b", "e", "t", "a">>
rc    == <<"r", "c">>
\* 2^63 and 10^19: digit strings one past the int64 range, 19 and 20 digits.
Over19 == MinInt64Mag
Over20 == <<"1","0","0","0","0","0","0","0","0","0","0","0","0","0","0","0","0","0","0","0">>

\* The identifiers a generated PreRelease ends with.
Idents ==
    { Empty, <<"1">>, <<"0", "1">>, <<"+", "1">>, <<"-", "1">>, <<"2">>,
      <<"1", "0">>, <<"-">>, <<"1", "a">>, alpha, beta,
      MaxInt64, Over19, Over20 }

\* The identifiers that come before the last one.
Prefixes == { Empty, <<"1">>, <<"0", "1">>, alpha }

RECURSIVE Join(_)
Join(ids) ==
    IF Len(ids) = 1 THEN ids[1] ELSE ids[1] \o <<".">> \o Join(Tail(ids))

RECURSIVE PrefixSeqs(_)
PrefixSeqs(n) ==
    IF n = 0 THEN { <<>> }
    ELSE LET shorter == PrefixSeqs(n - 1)
         IN  shorter \cup { Append(p, x) : p \in shorter, x \in Prefixes }

\* The pre-release strings of the Semantic Versioning reference chain.
ChainPre ==
    << alpha, Join(<<alpha, <<"1">>>>), Join(<<alpha, beta>>), beta,
       Join(<<beta, <<"2">>>>), Join(<<beta, <<"1", "1">>>>),
       Join(<<rc, <<"1">>>>), Empty >>

Chain == [i \in 1..Len(ChainPre) |-> Version(1, 0, 0, ChainPre[i], Empty)]

PreReleases ==
    { Join(Append(p, x)) : p \in PrefixSeqs(MaxIdents - 1), x \in Idents }
        \cup { ChainPre[i] : i \in 1..Len(ChainPre) }

\* Pre-release strings a strict parser would reject: "." and "a..b".
Malformed == { <<".">>, <<"a", ".", ".", "b">> }

Builds == { Empty, <<"b", "1">>, <<"b", "2">> }

CoreVals == (-MaxCore)..MaxCore

Versions ==
    { Version(ma, mi, pa, pre, Empty) :
          ma \in CoreVals, mi \in CoreVals, pa \in CoreVals, pre \in {Empty, alpha} }
        \cup { Version(1, 0, 0, pre, Empty) : pre \in PreReleases }
        \cup { Version(1, 0, 0, pre, bld) : pre \in {Empty, alpha}, bld \in Builds }
        \cup { Version(ma, 0, -1, pre, Empty) : ma \in {-1, 1}, pre \in Malformed }
        \cup { Version(0, 0, 0, pre, bld) : pre \in {Empty, alpha}, bld \in Builds }

\* The inputs of the three-way runs.
TransIdents ==
    { Empty, <<"1">>, <<"0", "1">>, <<"2">>, <<"1", "0">>, <<"1", "a">>,
      Over19, Over20 }

TransPrefixes == { <<"1">>, <<"0", "1">> }

RECURSIVE TransPrefixSeqs(_)
TransPrefixSeqs(n) ==
    IF n = 0 THEN { <<>> }
    ELSE LET shorter == TransPrefixSeqs(n - 1)
         IN  shorter \cup { Append(p, x) : p \in shorter, x \in TransPrefixes }

TransVersions ==
    { Version(1, 0, 0, Join(Append(p, x)), Empty) :
          p \in TransPrefixSeqs(MaxIdents - 1), x \in TransIdents }
        \cup { Version(1, 0, 1, pre, Empty) : pre \in {Empty, <<"1">>} }

\* The slices handed to ByVersion.
build1 == <<"b", "u", "i", "l", "d", "1">>
build2 == <<"b", "u", "i", "l", "d", "2">>
build3 == <<"b", "u", "i", "l", "d", "3">>

SortPool ==
    { Version(0, 9, 0, Empty, Empty), Version(1, 0, 0, alpha, Empty),
      Version(1, 0, 0, beta, Empty), Version(1, 0, 0, Empty, Empty),
      Version(1, 0, 0, Empty, build1), Version(1, 0, 0, Empty, build2),
      Version(1, 0, 0, alpha, build3) }

Slices == UNION { [1..n -> SortPool] : n \in 0..MaxLen }

\* The four versions of the documented sorting example.
SortExample ==
    << Version(1, 0, 0, beta, Empty), Version(1, 0, 0, Empty, Empty),
       Version(1, 0, 0, alpha, Empty), Version(0, 9, 0, Empty, Empty) >>

\* Longer slices: 1.0.0+build2 everywhere but for one 1.0.0+build1 and one
\* 0.9.0 or 1.0.0-alpha+build3, on either side of the insertion limit.
LongLens == { 7, maxInsertion, maxInsertion + 1 }

LongSlices ==
    { [k \in 1..n |->
          IF k = p THEN low
          ELSE IF k = q THEN Version(1, 0, 0, Empty, build1)
          ELSE Version(1, 0, 0, Empty, build2)] :
      n \in LongLens, p \in 1..(maxInsertion + 1), q \in 1..(maxInsertion + 1),
      low \in { Version(0, 9, 0, Empty, Empty), Version(1, 0, 0, alpha, build3) } }

SortInputs == Slices \cup { SortExample } \cup LongSlices

\* The build information of a binary built without any.
NoBuildInfo == [ok |-> FALSE, Settings |-> <<>>]

\* The settings the go command records for a build from a checkout: the
\* system, the revision, its time, and whether files were modified.
Revisions ==
    { <<"a", "b", "c">>, <<"a", "b", "c", "1", "2", "3", "4">>,
      <<"a", "b", "c", "1", "2", "3", "4", "d", "e", "0">> }

Setting(key, value) == [Key |-> key, Value |-> value]

VcsSettings ==
    { Setting("vcs", <<"g", "i", "t">>), Setting("vcs.time", <<"t">>),
      Setting("vcs.modified", true),
      Setting("vcs.modified", <<"f", "a", "l", "s", "e">>) }
    \cup { Setting("vcs.revision", r) : r \in Revisions }

\* Sequences of settings, each key at most once.
SettingSeqs ==
    { s \in UNION { [1..n -> VcsSettings] : n \in 0..MaxSettings } :
        \A i \in 1..Len(s), j \in 1..Len(s) : i # j => s[i].Key # s[j].Key }

BuildInfos == { NoBuildInfo } \cup { [ok |-> TRUE, Settings |-> s] : s \in SettingSeqs }

(***************************************************************************)
(* The calls.  a is the receiver and b the argument of a call; op names    *)
(* the last call made, ret holds what it returned and iters the number of  *)
(* loop iterations Compare ran.                                            *)
(***************************************************************************)
Init ==
    /\ a \in Versions
    /\ b \in Versions
    /\ c = Version(0, 0, 0, Empty, Empty)
    /\ op = "none"
    /\ ret = 0
    /\ iters = 0
    /\ data = <<>> /\ input = <<>> /\ args = <<>> /\ info = NoBuildInfo

CallCompare ==
    /\ op' = "Compare"
    /\ ret' = CompareTrace(a, b).ret
    /\ iters' = CompareTrace(a, b).iters
    /\ UNCHANGED <<a, b, c, data, input, args, info>>

CallEqual ==
    /\ op' = "Equal"
    /\ ret' = Equal(a, b)
    /\ iters' = 0
    /\ UNCHANGED <<a, b, c, data, input, args, info>>

CallString ==
    /\ op' = "String"
    /\ ret' = String(a)
    /\ iters' = 0
    /\ UNCHANGED <<a, b, c, data, input, args, info>>

CallShort ==
    /\ op' = "Short"
    /\ ret' = Short(a)
    /\ iters' = 0
    /\ UNCHANGED <<a, b, c, data, input, args, info>>

CallCore ==
    /\ op' = "Core"
    /\ ret' = Core(a)
    /\ iters' = 0
    /\ UNCHANGED <<a, b, c, data, input, args, info>>

CallLess ==
    /\ op' = "Less"
    /\ ret' = Less(a, b)
    /\ iters' = 0
    /\ UNCHANGED <<a, b, c, data, input, args, info>>

CallIsZero ==
    /\ op' = "IsZero"
    /\ ret' = IsZero(a)
    /\ iters' = 0
    /\ UNCHANGED <<a, b, c, data, input, args, info>>

Next ==
    \/ CallCompare \/ CallEqual \/ CallString \/ CallShort \/ CallCore
    \/ CallLess \/ CallIsZero

Spec == Init /\ [][Next]_vars

(***************************************************************************)
(* The ordering adapter called freely: data is the slice wrapped by        *)
(* ByVersion, input the slice as first handed over, args the indices of    *)
(* the last call.                                                          *)
(***************************************************************************)
InitAdapter ==
    /\ data \in Slices
    /\ input = data
    /\ args = <<>>
    /\ a = Version(0, 0, 0, Empty, Empty)
    /\ b = Version(0, 0, 0, Empty, Empty)
    /\ c = Version(0, 0, 0, Empty, Empty)
    /\ op = "none"
    /\ ret = 0
    /\ iters = 0
    /\ info = NoBuildInfo

CallByVersionLen ==
    /\ op' = "ByVersion.Len"
    /\ ret' = ByVersionLen(data)
    /\ args' = <<>>
    /\ UNCHANGED <<a, b, c, iters, data, input, info>>

CallByVersionLess ==
    \E i \in 1..Len(data), j \in 1..Len(data) :
        /\ op' = "ByVersion.Less"
        /\ ret' = ByVersionLess(data, i, j)
        /\ args' = <<i, j>>
        /\ UNCHANGED <<a, b, c, iters, data, input, info>>

CallByVersionSwap ==
    \E i \in 1..Len(data), j \in 1..Len(data) :
        /\ op' = "ByVersion.Swap"
        /\ data' = ByVersionSwap(data, i, j)
        /\ args' = <<i, j>>
        /\ ret' = 0
        /\ UNCHANGED <<a, b, c, iters, input, info>>

NextAdapter == CallByVersionLen \/ CallByVersionLess \/ CallByVersionSwap

SpecAdapter == InitAdapter /\ [][NextAdapter]_vars

(***************************************************************************)
(* A slice sorted by sort.Sort through the adapter.  The standard library  *)
(* of the build decides the algorithm: pdqsort since Go 1.19, quickSort    *)
(* before, modelled here for the slices it sorts without partitioning.     *)
(* A program is built with one of them, so a slice sorted again is sorted  *)
(* by the same algorithm.                                                  *)
(***************************************************************************)
InitSort ==
    /\ data \in SortInputs
    /\ input = data
    /\ args = <<>>
    /\ a = Version(0, 0, 0, Empty, Empty)
    /\ b = Version(0, 0, 0, Empty, Empty)
    /\ c = Version(0, 0, 0, Empty, Empty)
    /\ op = "none"
    /\ ret = 0
    /\ iters = 0
    /\ info = NoBuildInfo

CallSort ==
    /\ op \in {"none", "Sort"}
    /\ op' = "Sort"
    /\ data' = Sort(data)
    /\ ret' = 0
    /\ UNCHANGED <<a, b, c, iters, input, args, info>>

CallSortLegacy ==
    /\ op \in {"none", "SortLegacy"}
    /\ Len(data) <= maxInsertion
    /\ op' = "SortLegacy"
    /\ data' = SortLegacy(data)
    /\ ret' = 0
    /\ UNCHANGED <<a, b, c, iters, input, args, info>>

NextSort == CallSort \/ CallSortLegacy

SpecSort == InitSort /\ [][NextSort]_vars

(***************************************************************************)
(* Commit called in a binary with build information info, in either        *)
(* variant of the source.                                                  *)
(***************************************************************************)
InitCommit ==
    /\ info \in BuildInfos
    /\ data = <<>>
    /\ input = <<>>
    /\ args = <<>>
    /\ a = Version(0, 0, 0, Empty, Empty)
    /\ b = Version(0, 0, 0, Empty, Empty)
    /\ c = Version(0, 0, 0, Empty, Empty)
    /\ op = "none"
    /\ ret = 0
    /\ iters = 0

CallCommit ==
    /\ op' = "Commit"
    /\ ret' = Commit(info)
    /\ UNCHANGED <<a, b, c, iters, data, input, args, info>>

CallCommitUnnamed ==
    /\ op' = "CommitUnnamed"
    /\ ret' = CommitUnnamed(info)
    /\ UNCHANGED <<a, b, c, iters, data, input, args, info>>

NextCommit == CallCommit \/ CallCommitUnnamed

SpecCommit == InitCommit /\ [][NextCommit]_vars

\* Three versions compared pairwise, as a sort does: a with b, b with c, a with c.
InitTrans ==
    /\ a \in TransVersions
    /\ b \in TransVersions
    /\ c \in TransVersions
    /\ op = "none"
    /\ ret = 0
    /\ iters = 0
    /\ data = <<>> /\ input = <<>> /\ args = <<>> /\ info = NoBuildInfo

CallCompareAll ==
    /\ op' = "CompareAll"
    /\ ret' = <<Compare(a, b), Compare(b, c), Compare(a, c)>>
    /\ iters' = 0
    /\ UNCHANGED <<a, b, c, data, input, args, info>>

NextTrans == CallCompareAll

SpecTrans == InitTrans /\ [][NextTrans]_vars

(***************************************************************************)
(* Vocabulary of the properties.                                           *)
(***************************************************************************)
SameCore(v, v2) ==
    v.Major = v2.Major /\ v.Minor = v2.Minor /\ v.Patch = v2.Patch

\* The identifiers of a version's PreRelease, as the comparator sees them.
Fields(v) == Split(v.PreRelease)

Min(m, n) == IF m < n THEN m ELSE n

\* Both versions are pre-releases of the same core triple.
BothPreRelease(v, v2) ==
    SameCore(v, v2) /\ v.PreRelease # <<>> /\ v2.PreRelease # <<>>

\* Two identifiers tie: both parse to the same integer, or neither parses
\* and they are the same text.
Tied(x, y) ==
    \/ Atoi(x).ok /\ Atoi(y).ok /\ Atoi(x) = Atoi(y)
    \/ ~Atoi(x).ok /\ ~Atoi(y).ok /\ x = y

\* The identifier sequences of v and v2 tie on every index before i.
TiedBefore(v, v2, i) ==
    \A j \in 1..(i - 1) : Tied(Fields(v)[j], Fields(v2)[j])

CommonLen(v, v2) == Min(Len(Fields(v)), Len(Fields(v2)))

\* x consists only of decimal digits.
AllDigits(x) == x # <<>> /\ \A i \in 1..Len(x) : x[i] \in Digits

\* The numeric value of digit string x is below that of digit string y.
NumLess(x, y) == MagLess(StripZeros(x), StripZeros(y))

\* C1: Compare is antisymmetric: whatever the two versions, well-formed or
\* not, a.Compare(b) is the negation of b.Compare(a).
CompareAntisymmetric ==
    op = "Compare" => ret = -Compare(b, a)

\* A comparison of two pre-releases that a malformed identifier decided in
\* the second loop iteration.
CompareAntisymmetricWitness ==
    /\ op = "Compare" /\ ret = 1 /\ iters = 2
    /\ ~Atoi(Fields(a)[2]).ok /\ Atoi(Fields(b)[2]).ok

\* C2: Compare is transitive: if a.Compare(b) <= 0 and b.Compare(c) <= 0
\* then a.Compare(c) <= 0.
CompareTransitive ==
    op = "CompareAll" => (ret[1] <= 0 /\ ret[2] <= 0 => ret[3] <= 0)

\* Two differently spelled numeric forms tie and both rank below a third
\* version whose identifier is not numeric.
CompareTransitiveWitness ==
    /\ op = "CompareAll" /\ ret = <<0, -1, -1>>
    /\ a.PreRelease # b.PreRelease
    /\ \E i \in 1..Len(Fields(c)) :
           Fields(c)[i] # <<>> /\ ~Atoi(Fields(c)[i]).ok

\* C3: Build never takes part in precedence: replacing the Build strings of
\* both versions leaves the result of Compare unchanged, and two versions
\* that differ at most in Build compare as 0.
BuildIrrelevant ==
    op = "Compare" =>
        /\ \A x \in Builds, y \in Builds :
               Compare([a EXCEPT !.Build = x], [b EXCEPT !.Build = y]) = ret
        /\ (SameCore(a, b) /\ a.PreRelease = b.PreRelease => ret = 0)

\* Two versions that differ only in Build have been compared.
BuildIrrelevantWitness ==
    /\ op = "Compare" /\ ret = 0
    /\ SameCore(a, b) /\ a.PreRelease = b.PreRelease
    /\ a.Build # <<>> /\ b.Build # <<>> /\ a.Build # b.Build

\* C4: a normal release outranks every pre-release of the same core triple:
\* it compares 1 against it, and the pre-release compares -1 against it.
NormalOutranksPreRelease ==
    op = "Compare" /\ SameCore(a, b)
        /\ a.PreRelease = <<>> /\ b.PreRelease # <<>>
    => ret = 1 /\ Compare(b, a) = -1

\* A normal release compared with a pre-release made of empty identifiers.
NormalOutranksPreReleaseWitness ==
    /\ op = "Compare" /\ ret = 1 /\ SameCore(a, b)
    /\ a.PreRelease = <<>> /\ b.PreRelease = <<".">>

\* C5: at the first index where the identifier sequences of two pre-releases
\* of the same core triple do not tie, if exactly one identifier parses as
\* an integer, the version holding it compares -1 and the other 1.
NumericBelowNonNumeric ==
    op = "Compare" /\ BothPreRelease(a, b) =>
        \A i \in 1..CommonLen(a, b) :
            TiedBefore(a, b, i)
                /\ Atoi(Fields(a)[i]).ok # Atoi(Fields(b)[i]).ok
            => ret = IF Atoi(Fields(a)[i]).ok THEN -1 ELSE 1

\* After a tie on the first identifier, a numeric identifier met a
\* non-numeric one that sorts before it as text.
NumericBelowNonNumericWitness ==
    /\ op = "Compare" /\ BothPreRelease(a, b) /\ ret = -1
    /\ CommonLen(a, b) = 2 /\ TiedBefore(a, b, 2)
    /\ Atoi(Fields(a)[2]).ok /\ ~Atoi(Fields(b)[2]).ok
    /\ Fields(b)[2] # <<>> /\ StrLess(Fields(b)[2], Fields(a)[2])

\* C6: when two pre-releases of the same core triple tie on all their
\* common indices, the one with fewer identifiers compares -1, the one with
\* more compares 1, and with the same number they compare 0.
LengthTieBreak ==
    op = "Compare" /\ BothPreRelease(a, b)
        /\ TiedBefore(a, b, CommonLen(a, b) + 1)
    => ret = IF Len(Fields(a)) < Len(Fields(b)) THEN -1
             ELSE IF Len(Fields(a)) > Len(Fields(b)) THEN 1
             ELSE 0

\* A pre-release compared with a longer one that starts with a differently
\* written but tying identifier.
LengthTieBreakWitness ==
    /\ op = "Compare" /\ BothPreRelease(a, b) /\ ret = -1
    /\ Len(Fields(a)) = 1 /\ Len(Fields(b)) = 2
    /\ Tied(Fields(a)[1], Fields(b)[1]) /\ Fields(a)[1] # Fields(b)[1]

\* C7: at the first index where two pre-releases of the same core triple do
\* not tie, if both identifiers consist only of decimal digits, the one
\* with the smaller numeric value has lower precedence, for digit strings
\* of any length.
NumericComparedNumerically ==
    op = "Compare" /\ BothPreRelease(a, b) =>
        \A i \in 1..CommonLen(a, b) :
            TiedBefore(a, b, i) /\ ~Tied(Fields(a)[i], Fields(b)[i])
                /\ AllDigits(Fields(a)[i]) /\ AllDigits(Fields(b)[i])
            => /\ NumLess(Fields(a)[i], Fields(b)[i]) => ret = -1
               /\ NumLess(Fields(b)[i], Fields(a)[i]) => ret = 1

\* C8: the reference chain is strictly ascending: each element compares -1
\* against every later element and 1 against every earlier one.
ChainAscending ==
    op = "Compare" =>
        \A i \in 1..Len(Chain), j \in 1..Len(Chain) :
            a = Chain[i] /\ b = Chain[j] =>
                ret = IF i < j THEN -1 ELSE IF i > j THEN 1 ELSE 0

\* 1.0.0-beta.11 has been compared with 1.0.0-beta.2.
ChainAscendingWitness ==
    op = "Compare" /\ a = Chain[6] /\ b = Chain[5] /\ ret = 1

\* C9: Compare returns -1, 0 or 1 for every pair of versions, after at most
\* as many loop iterations as the shorter identifier sequence has entries,
\* and each renderer returns a string.
CompareTotal ==
    /\ op = "Compare" =>
           ret \in {-1, 0, 1} /\ iters <= CommonLen(a, b)
    /\ op \in {"String", "Short", "Core"} =>
           ret # <<>> /\ \A i \in 1..Len(ret) : ret[i] \in DOMAIN Byte

\* A version with negative integers and an empty identifier compared with
\* itself: the loop ran over every identifier.
CompareTotalWitness ==
    /\ op = "Compare" /\ ret = 0 /\ a.Major < 0 /\ b = a
    /\ \E i \in 1..Len(Fields(a)) : Fields(a)[i] = <<>>
    /\ iters = Len(Fields(a)) /\ iters > MaxIdents

\* C10: Equal holds exactly when all five fields are identical; it implies
\* Compare = 0, and two versions differing only in Build are not Equal
\* although they compare as 0.
EqualIsLiteral ==
    op = "Equal" =>
        /\ ret <=> (SameCore(a, b) /\ a.PreRelease = b.PreRelease
                        /\ a.Build = b.Build)
        /\ ret => Compare(a, b) = 0
        /\ (SameCore(a, b) /\ a.PreRelease = b.PreRelease /\ a.Build # b.Build
                => Compare(a, b) = 0 /\ ~ret)

\* Equal has been asked about two versions that differ only in Build.
EqualIsLiteralWitness ==
    /\ op = "Equal" /\ ret = FALSE
    /\ SameCore(a, b) /\ a.PreRelease = b.PreRelease /\ a.Build # b.Build

\* C11: Less is the comparator's strict-less result, ByVersion.Less on a
\* collection agrees with Less on the two elements, and Less is never true
\* of a version against itself nor in both directions.
LessIsCompareBelowZero ==
    op = "Less" =>
        /\ ret = (Compare(a, b) < 0)
        /\ ByVersionLess(<<a, b>>, 1, 2) = ret
        /\ ByVersionLess(<<b, b, a>>, 3, 1) = ret
        /\ ~Less(a, a)
        /\ ~(ret /\ Less(b, a))

\* Less asked of two versions of the same precedence that differ in Build.
LessIsCompareBelowZeroWitness ==
    /\ op = "Less" /\ ret = FALSE
    /\ Compare(a, b) = 0 /\ a.Build # b.Build

\* C12: IsZero is true exactly when Major, Minor and Patch are 0 and
\* PreRelease and Build are empty.
IsZeroAllFields ==
    op = "IsZero" =>
        (ret <=> /\ a.Major = 0 /\ a.Minor = 0 /\ a.Patch = 0
                 /\ a.PreRelease = <<>> /\ a.Build = <<>>)

\* IsZero asked of 0.0.0 carrying a Build.
IsZeroAllFieldsWitness ==
    /\ op = "IsZero" /\ ret = FALSE
    /\ a.Major = 0 /\ a.Minor = 0 /\ a.Patch = 0
    /\ a.PreRelease = <<>> /\ a.Build # <<>>

\* The value of a string of decimal digits.
RECURSIVE DecValue(_)
DecValue(ds) ==
    IF ds = <<>> THEN 0
    ELSE 10 * DecValue(SubSeq(ds, 1, Len(ds) - 1)) + DigitVal[ds[Len(ds)]]

\* ds is the unpadded decimal numeral of n: digits only, no leading zero, a
\* minus sign in front of the numeral of -n when n is negative.
RECURSIVE IsDecimalOf(_, _)
IsDecimalOf(ds, n) ==
    IF n < 0 THEN ds # <<>> /\ ds[1] = "-" /\ IsDecimalOf(Tail(ds), -n)
    ELSE /\ ds # <<>>
         /\ \A i \in 1..Len(ds) : ds[i] \in Digits
         /\ Len(ds) > 1 => ds[1] # "0"
         /\ DecValue(ds) = n

\* The unpadded decimal numeral of each integer the versions hold.
Decimal ==
    [n \in CoreVals \cup {-1, 0, 1} |->
        CHOOSE ds \in UNION { [1..k -> Digits \cup {"-"}] : k \in 1..2 } :
            IsDecimalOf(ds, n)]

IsPrefix(s, t) == Len(s) <= Len(t) /\ SubSeq(t, 1, Len(s)) = s

Sign(n) == IF n < 0 THEN -1 ELSE IF n > 0 THEN 1 ELSE 0

\* C13: String is MAJOR.MINOR.PATCH in unpadded decimal, then "-" and
\* PreRelease exactly when PreRelease is non-empty, then "+" and Build
\* exactly when Build is non-empty, both verbatim, and nothing else.
StringShape ==
    op = "String" =>
        ret = Decimal[a.Major] \o <<".">> \o Decimal[a.Minor] \o <<".">>
                \o Decimal[a.Patch]
                \o (IF a.PreRelease # <<>> THEN <<"-">> \o a.PreRelease ELSE <<>>)
                \o (IF a.Build # <<>> THEN <<"+">> \o a.Build ELSE <<>>)

\* A version with both a PreRelease and a Build has been rendered.
StringShapeWitness ==
    op = "String" /\ a.PreRelease # <<>> /\ a.Build # <<>>

\* C14: Short is String of the version with Build emptied, Core is String
\* of the version with PreRelease and Build emptied, and Core is a prefix
\* of Short, which is a prefix of String.
ShortAndCoreAreStripped ==
    /\ op = "Short" =>
           /\ ret = String([a EXCEPT !.Build = <<>>])
           /\ IsPrefix(Core(a), ret) /\ IsPrefix(ret, String(a))
    /\ op = "Core" =>
           /\ ret = String([a EXCEPT !.PreRelease = <<>>, !.Build = <<>>])
           /\ IsPrefix(ret, Short(a))

\* Short of a normal release that carries a Build.
ShortAndCoreAreStrippedWitness ==
    op = "Short" /\ a.PreRelease = <<>> /\ a.Build # <<>> /\ ret = Core(a)

\* The pre-release strings put in place of those of the compared versions.
ProbePre == { Empty, alpha, <<"1">> }

\* C17: Compare is decided by the first of Major, Minor, Patch that
\* differs, as the sign of its difference; PreRelease is consulted only
\* when all three are equal.
FirstFieldDecides ==
    op = "Compare" =>
        /\ a.Major # b.Major => ret = Sign(a.Major - b.Major)
        /\ a.Major = b.Major /\ a.Minor # b.Minor
               => ret = Sign(a.Minor - b.Minor)
        /\ a.Major = b.Major /\ a.Minor = b.Minor /\ a.Patch # b.Patch
               => ret = Sign(a.Patch - b.Patch)
        /\ ~SameCore(a, b) =>
               /\ iters = 0
               /\ \A p \in ProbePre, q \in ProbePre :
                      Compare([a EXCEPT !.PreRelease = p],
                              [b EXCEPT !.PreRelease = q]) = ret

\* A pre-release with the lower Major and the higher Minor and Patch has
\* been compared with a normal release.
FirstFieldDecidesWitness ==
    /\ op = "Compare" /\ ret = -1
    /\ a.Major < b.Major /\ a.Minor > b.Minor /\ a.Patch > b.Patch
    /\ a.PreRelease # <<>> /\ b.PreRelease = <<>>

\* The number of positions of s that hold x.
Count(s, x) == Cardinality({ k \in 1..Len(s) : s[k] = x })

Range(s) == { s[k] : k \in 1..Len(s) }

\* s and t hold the same versions, each as many times.
SameElements(s, t) ==
    /\ Len(s) = Len(t)
    /\ \A x \in Range(s) \cup Range(t) : Count(s, x) = Count(t, x)

\* The elements of s that have the precedence of x, in their order in s.
RECURSIVE TiesOf(_, _)
TiesOf(s, x) ==
    IF s = <<>> THEN <<>>
    ELSE IF Compare(Head(s), x) = 0 THEN <<Head(s)>> \o TiesOf(Tail(s), x)
    ELSE TiesOf(Tail(s), x)

Sorted == op \in {"Sort", "SortLegacy"}

Ascending(s) ==
    \A i \in 1..Len(s), j \in 1..Len(s) : i < j => Compare(s[i], s[j]) <= 0

\* C15: when the sort has finished, the slice is in ascending precedence
\* and a permutation of the input; the documented four versions come out
\* as 0.9.0, 1.0.0-alpha, 1.0.0-beta, 1.0.0.
SortAscending ==
    Sorted =>
        /\ Ascending(data)
        /\ SameElements(data, input)
        /\ input = SortExample =>
               data = << SortExample[4], SortExample[3],
                         SortExample[1], SortExample[2] >>

\* The documented four versions have been sorted.
SortAscendingWitness ==
    Sorted /\ input = SortExample /\ data # input

\* C18: Swap(i, j) exchanges the elements at i and j and changes nothing
\* else, Len and Less change nothing, and so the slice always holds the
\* versions it held at first, each as many times.
SwapOnlyPermutes ==
    /\ [][ /\ op' = "ByVersion.Swap" =>
                /\ Len(data') = Len(data)
                /\ data'[args'[1]] = data[args'[2]]
                /\ data'[args'[2]] = data[args'[1]]
                /\ \A k \in 1..Len(data) :
                       k \notin {args'[1], args'[2]} => data'[k] = data[k]
                /\ args'[1] = args'[2] => data' = data
           /\ op' \in {"ByVersion.Len", "ByVersion.Less"} => data' = data
         ]_vars
    /\ [](SameElements(data, input))

\* Two different versions of the same precedence have been exchanged in a
\* slice of three.
SwapOnlyPermutesWitness ==
    /\ op = "ByVersion.Swap" /\ Len(data) = 3 /\ data # input
    /\ Compare(data[args[1]], data[args[2]]) = 0

\* C19 as stated: after the sort, versions of the same precedence are in
\* the order they had in the input, whatever the length of the slice.
SortKeepsTies ==
    Sorted =>
        \A x \in Range(input) : TiesOf(data, x) = TiesOf(input, x)

\* C19 amended: after the sort of a slice of at most 6 versions, and with
\* the sort of Go 1.19 and later of at most 12, versions of the same
\* precedence are in the order they had in the input.
SortKeepsTiesOfShortSlices ==
    Sorted /\ Len(input) <= (IF op = "Sort" THEN maxInsertion ELSE shellGap) =>
        \A x \in Range(input) : TiesOf(data, x) = TiesOf(input, x)

\* 1.0.0+build2, 1.0.0+build1, 1.0.0-alpha+build3 has been sorted to
\* 1.0.0-alpha+build3, 1.0.0+build2, 1.0.0+build1.
SortKeepsTiesWitness ==
    /\ Sorted
    /\ input = << Version(1, 0, 0, Empty, build2), Version(1, 0, 0, Empty, build1),
                  Version(1, 0, 0, alpha, build3) >>
    /\ data = << Version(1, 0, 0, alpha, build3), Version(1, 0, 0, Empty, build2),
                 Version(1, 0, 0, Empty, build1) >>

\* The value of the setting key of the build information, or <<>> when
\* there is none.
SettingOf(bi, key) ==
    IF bi.ok /\ \E k \in 1..Len(bi.Settings) : bi.Settings[k].Key = key
    THEN bi.Settings[CHOOSE k \in 1..Len(bi.Settings) : bi.Settings[k].Key = key].Value
    ELSE <<>>

Committed == op \in {"Commit", "CommitUnnamed"}

\* The first seven characters of s, or s when it has fewer.
FirstSeven(s) == [k \in 1..Min(Len(s), 7) |-> s[k]]

\* C16: for a build with a revision and no uncommitted change, Commit
\* returns the first 7 characters of the revision and no suffix.
CommitOfCleanBuild ==
    /\ Committed
    /\ SettingOf(info, "vcs.revision") # <<>>
    /\ SettingOf(info, "vcs.modified") = <<"f", "a", "l", "s", "e">>
    => ret = FirstSeven(SettingOf(info, "vcs.revision"))

\* C20: for a build with uncommitted changes, Commit returns the short
\* revision followed by "-dirty", or "*-dirty" when there is no revision.
CommitOfDirtyBuild ==
    /\ Committed
    /\ SettingOf(info, "vcs.modified") = <<"t", "r", "u", "e">>
    => ret = IF SettingOf(info, "vcs.revision") # <<>>
             THEN FirstSeven(SettingOf(info, "vcs.revision"))
                      \o <<"-", "d", "i", "r", "t", "y">>
             ELSE <<"*", "-", "d", "i", "r", "t", "y">>

\* s holds the characters of sub somewhere, in a row.
Contains(s, sub) ==
    \E i \in 1..(Len(s) - Len(sub) + 1) : SubSeq(s, i, i + Len(sub) - 1) = sub

\* C21: when vcs.modified is absent or "false", the result of Commit holds
\* no "dirty" marker, and it is empty when there is no vcs.revision either.
CommitMarksOnlyDirty ==
    /\ Committed
    /\ SettingOf(info, "vcs.modified") \in { <<>>, <<"f", "a", "l", "s", "e">> }
    => /\ ~Contains(ret, <<"d", "i", "r", "t", "y">>)
       /\ SettingOf(info, "vcs.revision") = <<>> => ret = <<>>

\* C22 as stated: versions that Compare as equal have the same Major,
\* Minor, Patch and the same PreRelease string.
TiesOnlyFromBuild ==
    op = "Compare" /\ ret = 0 => SameCore(a, b) /\ a.PreRelease = b.PreRelease

\* C22 amended: versions that Compare as equal have the same Major, Minor,
\* Patch and as many PreRelease identifiers, each pair of them the same text
\* or two integers of the same value.
TiesOnlyFromTiedIdentifiers ==
    op = "Compare" /\ ret = 0 =>
        /\ SameCore(a, b)
        /\ Len(Fields(a)) = Len(Fields(b))
        /\ \A i \in 1..Len(Fields(a)) :
               \/ Fields(a)[i] = Fields(b)[i]
               \/ Atoi(Fields(a)[i]).ok /\ Atoi(Fields(b)[i]).ok
                      /\ Atoi(Fields(a)[i]) = Atoi(Fields(b)[i])

\* Two pre-releases of two identifiers have compared as equal although
\* their second identifiers are written differently.
TiesOnlyFromTiedIdentifiersWitness ==
    /\ op = "Compare" /\ ret = 0
    /\ Len(Fields(a)) = 2 /\ Len(Fields(b)) = 2
    /\ Fields(a)[1] = Fields(b)[1] /\ Fields(a)[1] # <<>>
    /\ Fields(a)[2] # Fields(b)[2]
    /\ AllDigits(Fields(a)[2]) /\ AllDigits(Fields(b)[2])

====
